---- MODULE Spec2Model ----
(***************************************************************************)
(* Model of the HPC thermal-stability benchmark:                           *)
(*   - src/verify_dryout.py: solve_marangoni_physics, the explicit         *)
(*     time-marching solver (wall/fluid temperature, Marangoni flow,       *)
(*     heat-transfer coefficient, snapshots, runaway exit);                *)
(*   - src/physics/boiling_curves.py: calculate_zuber_chf,                 *)
(*     calculate_safety_margin, calculate_lienhard_chf_heater_size,        *)
(*     calculate_kandlikar_chf, calculate_boiling_curve;                   *)
(*   - src/physics/marangoni_velocity.py: calculate_marangoni_velocity.    *)
(*                                                                         *)
(* The code works in IEEE doubles; the model works in fixed point:         *)
(*   temperature            mK        (25.0 C = 25000)                     *)
(*   time, dt, t_max        us        (0.000002 s = 2)                     *)
(*   velocity               1e-4 m/s  (2.0 m/s = 20000)                    *)
(*   heat-transfer coeff.   0.1 W/m2K                                      *)
(*   heat flux (solver)     W/m2                                           *)
(*   lengths                um                                             *)
(*   gradient of T          K/m,  second derivative  1000 K/m2             *)
(* Divisions truncate toward zero.  Products that exceed the 32-bit range  *)
(* are formed by MulDiv; where the code clips the result right after, the  *)
(* product saturates at Big, which leaves the clipped value unchanged.     *)
(***************************************************************************)
EXTENDS Integers, Sequences, FiniteSets, TLC

VARIABLES
    geometry,      \* module-level geometry L_CHANNEL, W_CHANNEL, H_CHANNEL, NODES
    pc,            \* "idle" | "loop" | "returned" | "raised"
    calls,         \* number of invocations of solve_marangoni_physics so far
    q_flux_w_m2, t_max, dt, priming_flow,   \* arguments of the current call
    time_steps,    \* int(t_max / dt)
    t,             \* loop variable of "for t in range(time_steps)"
    broke,         \* the loop was left by "break"
    Q_FLUX_PROFILE,
    T_wall, T_fluid, u_flow, h_total,
    u_mean,        \* Unbound until the first step assigns it
    h_boil,
    history,
    result,        \* the returned dictionary, or NoResult
    exception,     \* name of the exception that ended the call, or "none"
    peak_T_max,    \* history: largest max(T_wall) seen after any step of the call
    reference,     \* history: arguments and result of the first call that returned
    chf_pc,        \* "idle" | "zuber" | "margin" | "lienhard" | "kandlikar" | "curve"
                   \* | "marangoni"
    chf_fluid,     \* fluid properties passed to the last library call
    chf_args,      \* the other arguments of the last library call
    chf_out        \* outcome of the last library call

solverVars == <<pc, calls, q_flux_w_m2, t_max, dt, priming_flow, time_steps, t,
                broke, Q_FLUX_PROFILE, T_wall, T_fluid, u_flow, h_total, u_mean,
                h_boil, history, result, exception, peak_T_max, reference>>
chfVars == <<chf_pc, chf_fluid, chf_args, chf_out>>
vars == <<geometry, solverVars, chfVars>>

----------------------------------------------------------------------------
(* Bounds of the model *)

MaxCalls == 2        \* invocations of the solver in one process
MaxSteps == 4        \* only calls with int(t_max/dt) <= MaxSteps are explored
MaxLongSteps == 20001   \* the same for the single call of a long run

----------------------------------------------------------------------------
(* Integer helpers *)

Big == 1000000000

Abs(x) == IF x < 0 THEN -x ELSE x
Sign(x) == IF x < 0 THEN -1 ELSE 1
Min(a, b) == IF a < b THEN a ELSE b
Max(a, b) == IF a > b THEN a ELSE b

\* np.clip(x, lo, hi)
Clip(x, lo, hi) == Max(lo, Min(hi, x))

\* a / b truncated toward zero (b > 0)
Quot(a, b) == Sign(a) * (Abs(a) \div b)

\* floor(a*b/c) for a, b >= 0, c > 0 without forming a*b
MulDiv(a, b, c) ==
    LET qa == a \div c
        ra == a % c
        qb == b \div c
        rb == b % c
    IN  qa * b + ra * qb + (ra * rb) \div c

\* a*b/c truncated toward zero, for signed a and b
SMulDiv(a, b, c) == Sign(a) * Sign(b) * MulDiv(Abs(a), Abs(b), c)

\* a*b/c as SMulDiv, saturating at +-Big
SatMulDiv(a, b, c) ==
    IF a = 0 \/ b = 0 THEN 0
    ELSE IF Abs(b) \div c >= Big \div Abs(a) THEN Sign(a) * Sign(b) * Big
    ELSE Clip(SMulDiv(a, b, c), -Big, Big)

RECURSIVE ISqrtIter(_, _)
ISqrtIter(n, x) ==
    LET y == (x + n \div x) \div 2
    IN  IF y >= x THEN x ELSE ISqrtIter(n, y)

\* floor(sqrt(n)), n >= 0
ISqrt(n) == IF n < 2 THEN n ELSE ISqrtIter(n, n \div 2 + 1)

\* floor(cbrt(n)), 0 <= n < 1290^3
ICbrt(n) == CHOOSE r \in 0..1290 : r * r * r <= n /\ (r + 1) * (r + 1) * (r + 1) > n

\* Python round(): nearest multiple of m, ties to even
RoundHalfEven(x, m) ==
    LET a == Abs(x)
        qd == a \div m
        r == a % m
        up == (2 * r > m) \/ (2 * r = m /\ qd % 2 = 1)
    IN  Sign(x) * (qd + (IF up THEN 1 ELSE 0)) * m

\* round(a / b, 4) scaled by 10^4, a >= 0, b > 0
RoundRatio4(a, b) ==
    LET n == a * 10000
        qd == n \div b
        r == n % b
        up == (2 * r > b) \/ (2 * r = b /\ qd % 2 = 1)
    IN  qd + (IF up THEN 1 ELSE 0)

RECURSIVE SumTo(_, _)
SumTo(f, n) == IF n = 0 THEN 0 ELSE f[n - 1] + SumTo(f, n - 1)

RECURSIVE MaxTo(_, _)
MaxTo(f, n) == IF n = 1 THEN f[0] ELSE Max(f[n - 1], MaxTo(f, n - 1))

\* ln 2 scaled by 10^4
LN2 == 6931

\* ln(m / 10^4) scaled by 10^4 for 10^4 <= m < 2*10^4: 2*atanh((m-1)/(m+1))
LnMantissa(m) ==
    LET z == ((m - 10000) * 10000) \div (m + 10000)
        z2 == (z * z) \div 10000
        z3 == (z * z2) \div 10000
        z5 == (z3 * z2) \div 10000
        z7 == (z5 * z2) \div 10000
    IN  2 * (z + z3 \div 3 + z5 \div 5 + z7 \div 7)

RECURSIVE LnFix(_, _)
LnFix(m, acc) == IF m >= 20000 THEN LnFix(m \div 2, acc + LN2) ELSE acc + LnMantissa(m)

RECURSIVE LnInt(_, _)
LnInt(x, acc) == IF x >= 200000 THEN LnInt(x \div 2, acc + LN2) ELSE LnFix(x * 10000, acc)

\* np.log(x) scaled by 10^4, x >= 1
Ln(x) == LnInt(x, 0)

----------------------------------------------------------------------------
(* Fluid, substrate and geometry constants of verify_dryout.py *)

RHO == 1370            \* kg/m3
MU == 48               \* 1e-5 Pa.s
CP == 1180             \* J/kg.K
K_FLUID == 75          \* mW/m.K
T_SAT == 33000         \* mK
SIGMA_GRAD == 12       \* 1e-5 N/m.K
RHO_CU == 8960         \* kg/m3
CP_CU == 385           \* J/kg.K
K_CU == 400            \* W/m.K
THICKNESS_CU == 2      \* mm
L_CHANNEL == 10000     \* um
W_CHANNEL == 5000      \* um
H_CHANNEL == 500       \* um
NODES == 50

DefaultGeometry ==
    [L_CHANNEL |-> L_CHANNEL, W_CHANNEL |-> W_CHANNEL,
     H_CHANNEL |-> H_CHANNEL, NODES |-> NODES]

\* the node count in effect, and the index set of the per-node arrays
NodeCount == geometry.NODES
NodeIds == 0..(NodeCount - 1)

\* D_H = 2 * (W_CHANNEL * H_CHANNEL) / (W_CHANNEL + H_CHANNEL)   [um]
D_H == (2 * (geometry.W_CHANNEL * geometry.H_CHANNEL))
           \div (geometry.W_CHANNEL + geometry.H_CHANNEL)

\* DX = L_CHANNEL / NODES   [um]
DX == geometry.L_CHANNEL \div geometry.NODES

T_AMBIENT == 25000          \* mK: initial and inlet temperature
SEED_PERTURBATION == 100    \* mK: T_wall[CENTER_NODE] += 0.1
MIN_BASE_FLOW == 100        \* 1e-4 m/s: + 0.01
RE_LAMINAR_LIMIT == 2300
NU_LAMINAR == 436           \* 4.36 scaled by 100
BOIL_COEFF == 2000          \* W/m2K3
H_BOIL_MAX == 2000000       \* 0.1 W/m2K: 200000.0
FLUID_RATE_LIMIT == 10000000  \* mK/s: 10000.0 K/s
LOG_INTERVAL == 10000
T_FAILURE == 150000         \* mK: 150.0
SIGMA_NODE == 5

----------------------------------------------------------------------------
(* Heat-load profile *)

\* exp(-k^2 / (2 * SIGMA_NODE^2)) scaled by 10^5, k = 0..25
GaussTable ==
    <<100000, 98020, 92312, 83527, 72615, 60653, 48675, 37531, 27804, 19790,
      13534, 8892, 5613, 3405, 1984, 1111, 598, 309, 153, 73, 34, 15, 6, 3, 1, 0>>

CENTER_NODE == NodeCount \div 2

\* gaussian_profile before normalisation, scaled by 10^5
GaussianRaw == [i \in NodeIds |-> GaussTable[Abs(i - CENTER_NODE) + 1]]

\* variant: the profile is not divided by its mean
GaussianProfile_unnormalised == [i \in NodeIds |-> GaussianRaw[i] \div 10]

\* gaussian_profile / np.mean(gaussian_profile), scaled by 10^4
GaussianProfile ==
    LET mean == SumTo(GaussianRaw, NodeCount) \div NodeCount
    IN  [i \in NodeIds |-> MulDiv(GaussianRaw[i], 10000, mean)]

\* Q_FLUX_PROFILE = q_flux_w_m2 * gaussian_profile   [W/m2]
HeatLoadProfile(q) == [i \in NodeIds |-> SMulDiv(q, GaussianProfile[i], 10000)]

----------------------------------------------------------------------------
(* One time step of solve_marangoni_physics, piece by piece *)

\* np.gradient(f, DX): central differences, one-sided at the two ends.
\* mK in, K/m out (and K/m in, 1000 K/m2 out).
Gradient(f) ==
    [i \in NodeIds |->
        IF i = 0 THEN SMulDiv(f[1] - f[0], 1000, DX)
        ELSE IF i = NodeCount - 1 THEN SMulDiv(f[i] - f[i - 1], 1000, DX)
        ELSE SMulDiv(f[i + 1] - f[i - 1], 1000, 2 * DX)]

\* tau = SIGMA_GRAD * |dT_dx|; u_local = (H_CHANNEL * tau) / (2 * MU)   [1e-4 m/s]
MarangoniLocal(dT_dx) ==
    LET tau == SIGMA_GRAD * Abs(dT_dx)
    IN  MulDiv(tau, geometry.H_CHANNEL, 2 * MU) \div 100

\* u_flow = 0.9 * u_flow + 0.1 * u_local
RelaxFlow(u_old, u_local) == Quot(9 * u_old + u_local, 10)

\* u_mean = np.mean(u_flow) + 0.01
MeanFlow(u) == Quot(SumTo(u, NodeCount), NodeCount) + MIN_BASE_FLOW

\* Re = (RHO * u_mean * D_H) / MU
Reynolds(um) == Quot(SMulDiv(um, RHO * D_H, MU * 100), 1000)

\* Pr = (CP * MU) / K_FLUID, scaled by 10^3
Prandtl == (CP * MU * 10) \div K_FLUID

\* Pr ** (2/3), scaled by 10^2
PrandtlTwoThirds == ICbrt(Prandtl * Prandtl)

\* f = (0.79 * np.log(Re) - 1.64) ** -2, scaled by 10^6
FrictionFactor(Re) ==
    LET x == (79 * Ln(Re)) \div 1000 - 1640
    IN  ((1000000000 \div x) * 1000) \div x

\* Nu = ((f/8) * (Re - 1000) * Pr) / (1 + 12.7 * (f/8)**0.5 * (Pr**(2/3) - 1)),
\* scaled by 10^2
Gnielinski(Re) ==
    LET f8 == FrictionFactor(Re) \div 8
        root == ISqrt(f8 * 10000)
        num == MulDiv(f8 * (Re - 1000), Prandtl, 10000)
        den == 1000 + (127 * root * (PrandtlTwoThirds - 100)) \div 100000
    IN  num \div den

\* variant: Re = 2300 itself is laminar
Nusselt_laminar_at_limit(Re) ==
    IF Re <= RE_LAMINAR_LIMIT THEN NU_LAMINAR ELSE Gnielinski(Re)

\* if Re < 2300: Nu = 4.36 else: Gnielinski
Nusselt(Re) == IF Re < RE_LAMINAR_LIMIT THEN NU_LAMINAR ELSE Gnielinski(Re)

\* h_conv = (Nu * K_FLUID) / D_H   [0.1 W/m2K]
ConvectiveCoeff(Nu) == MulDiv(Nu * K_FLUID, 100, D_H)

\* variant: the ceiling of the boiling coefficient is 100000
BoilingCoeff_lower_ceiling(T) ==
    LET superheat == T - T_SAT
    IN  IF superheat <= 0 THEN 0
        ELSE IF superheat > 46000 THEN H_BOIL_MAX \div 2
        ELSE Clip(Max(MulDiv(superheat * superheat, BOIL_COEFF, 100000), 1),
                  0, H_BOIL_MAX \div 2)

\* h_boil: 0 where superheat <= 0, else clip(2000 * superheat^2, 0, 200000).
\* A positive superheat gives a positive coefficient, as in floating point.
BoilingCoeff(T) ==
    LET superheat == T - T_SAT
    IN  IF superheat <= 0 THEN 0
        ELSE IF superheat > 46000 THEN H_BOIL_MAX
        ELSE Clip(Max(MulDiv(superheat * superheat, BOIL_COEFF, 100000), 1),
                  0, H_BOIL_MAX)

\* h_total = 0.99 * h_total + 0.01 * h_target
RelaxCoeff(h_old, h_target) == Quot(99 * h_old + h_target, 100)

\* RHO_CU * CP_CU * THICKNESS_CU   [mJ/m2K]
WallHeatCapacity == RHO_CU * CP_CU * THICKNESS_CU

\* alpha_cu = K_CU / (RHO_CU * CP_CU), max_rate = alpha_cu / DX^2   [mK/s]
MaxRate ==
    LET alpha_cu == (K_CU * 1000000) \div ((RHO_CU * CP_CU) \div 100)
    IN  MulDiv(MulDiv(alpha_cu, 10000, DX), 1000, DX)

\* h * (T_wall - T_fluid)   [W/m2]
Extraction(h, Tw, Tf) == SMulDiv(Tw - Tf, h, 10000)

\* dT_dt_wall before the limiter   [mK/s]
WallRate(d2T, q, h, Tw, Tf) ==
    LET dq_cond == SatMulDiv(d2T, K_CU * THICKNESS_CU, 1)
        dq_source == q
        dq_conv == Extraction(h, Tw, Tf)
    IN  SMulDiv(dq_cond + dq_source - dq_conv, 10000, WallHeatCapacity \div 100)

\* variant: the limiter allows twice the diffusive rate
LimitWallRate_doubled(rate) == Clip(rate, -2 * MaxRate, 2 * MaxRate)

\* np.clip(dT_dt_wall, -max_rate, max_rate)
LimitWallRate(rate) == Clip(rate, -MaxRate, MaxRate)

\* rate * dt   [mK], rate in mK/s, dt in us
Advance(rate, step) == Quot(SMulDiv(rate, step, 1000), 1000)

\* RHO * CP * H_CHANNEL   [uJ/m2K]
FluidHeatCapacity == RHO * CP * geometry.H_CHANNEL

\* dT_dt_fluid = dq_gain / (RHO*CP*H_CHANNEL) - u_mean * dT_dx_fluid, clipped
FluidRate(h, Tw, Tf, um, dTf_dx) ==
    LET dq_gain == Extraction(h, Tw, Tf)
        gain == SMulDiv(dq_gain, 10000, FluidHeatCapacity \div 100000)
        advection == SatMulDiv(um, dTf_dx, 10)
    IN  Clip(gain - advection, -FLUID_RATE_LIMIT, FLUID_RATE_LIMIT)

\* variant: the fluid update reads the wall temperature of before the advance
WallSeenByFluid_before_advance(before, after) == before

\* dq_gain = h_total * (T_wall - T_fluid) is computed after T_wall += ...
WallSeenByFluid(before, after) == after

\* variant: the inlet node is left as the update computed it
PinInlet_absent(Tf) == Tf

\* T_fluid[0] = 25.0
PinInlet(Tf) == [Tf EXCEPT ![0] = T_AMBIENT]

\* the snapshot appended to history
Snapshot(step, Tw, um, h, hb) ==
    [Time |-> RoundHalfEven(step * dt, 100),
     T_Max |-> RoundHalfEven(MaxTo(Tw, NodeCount), 10),
     Flow_Mean |-> RoundHalfEven(um, 1),
     H_Mean |-> RoundHalfEven(Quot(SumTo(h, NodeCount), NodeCount), 1),
     Boiling_Ratio |-> RoundRatio4(Cardinality({i \in NodeIds : hb[i] > 0}), NodeCount)]

----------------------------------------------------------------------------
(* solve_marangoni_physics *)

\* values a caller passes
HeatFluxes == {1000000, 4000000, 5000000}     \* W/m2
TimeSpans == {1, 80000, 110000}               \* us
TimeIncrements == {2, 25000, 50000}           \* us
PrimingFlows == {0, 20000}                    \* 1e-4 m/s

\* variant: the step count is rounded up
TimeSteps_rounded_up(tm, step) == (tm + step - 1) \div step

\* time_steps = int(t_max / dt)
TimeSteps(tm, step) == tm \div step

\* T_wall = np.ones(NODES) * 25.0; T_wall[CENTER_NODE] += 0.1
\* variant: the wall array of the previous invocation is reused
InitialWall_leftover ==
    IF calls = 0
    THEN [i \in NodeIds |-> IF i = CENTER_NODE THEN T_AMBIENT + SEED_PERTURBATION
                            ELSE T_AMBIENT]
    ELSE T_wall

\* T_wall = np.ones(NODES) * 25.0 ; T_wall[CENTER_NODE] += 0.1
InitialWall ==
    [i \in NodeIds |-> IF i = CENTER_NODE THEN T_AMBIENT + SEED_PERTURBATION
                       ELSE T_AMBIENT]

\* T_fluid = np.ones(NODES) * 25.0
InitialFluid == [i \in NodeIds |-> T_AMBIENT]

\* u_flow = np.ones(NODES) * priming_flow
InitialFlow(pf) == [i \in NodeIds |-> pf]

\* h_total = np.zeros(NODES)
InitialCoeff == [i \in NodeIds |-> 0]

\* variant: only the first step is logged
IsLoggingStep_first_only(step) == step = 0

\* if t % 10000 == 0
IsLoggingStep(step) == step % LOG_INTERVAL = 0

\* variant: the loop has no failure check
FailureCheck_absent(step, Tw) == FALSE

\* variant: the failure check fires at the saturation temperature
FailureCheck_at_saturation(step, Tw) ==
    IsLoggingStep(step) /\ MaxTo(Tw, NodeCount) > T_SAT

\* if np.max(T_wall) > 150.0: break   (inside the logging block)
FailureCheck(step, Tw) == IsLoggingStep(step) /\ MaxTo(Tw, NodeCount) > T_FAILURE

\* variant: converged reports that the loop was not left by break
Converged_if_not_broken(Tw) == ~broke

\* "converged": np.max(T_wall) < 150.0
Converged(Tw) == MaxTo(Tw, NodeCount) < T_FAILURE

\* lines 98-116: the state of a call when it reaches the loop
Start(q, tm, step, pf) ==
    /\ pc \in {"idle", "returned", "raised"}
    /\ calls' = calls + 1
    /\ q_flux_w_m2' = q
    /\ t_max' = tm
    /\ dt' = step
    /\ priming_flow' = pf
    /\ Q_FLUX_PROFILE' = HeatLoadProfile(q)
    /\ T_wall' = InitialWall
    /\ T_fluid' = InitialFluid
    /\ u_flow' = InitialFlow(pf)
    /\ h_total' = InitialCoeff
    /\ time_steps' = TimeSteps(tm, step)
    /\ history' = <<>>
    /\ t' = 0
    /\ broke' = FALSE
    /\ u_mean' = <<>>
    /\ h_boil' = <<>>
    /\ result' = <<>>
    /\ exception' = "none"
    /\ peak_T_max' = MaxTo(InitialWall, NodeCount)
    /\ pc' = "loop"
    /\ UNCHANGED <<geometry, reference, chfVars>>

\* a call of a few steps; up to MaxCalls of them in one process
Call(q, tm, step, pf) ==
    /\ calls < MaxCalls
    /\ TimeSteps(tm, step) <= MaxSteps
    /\ Start(q, tm, step, pf)

\* values a caller passes for a run that covers several logging intervals
LongHeatFluxes == {1000000, 20000000}         \* W/m2
LongTimeSpans == {200010}                     \* us
LongTimeIncrements == {10}                    \* us

\* priming flows around the one that puts the first step at Re = 2300
RegimePrimingFlows == 9700..9780              \* 1e-4 m/s

\* priming flows directed against the channel: -2.0 m/s and -0.0112 m/s
ReversePrimingFlows == {-20000, -112}         \* 1e-4 m/s

\* a single short call
RegimeCall(q, tm, step, pf) ==
    /\ calls = 0
    /\ TimeSteps(tm, step) <= MaxSteps
    /\ Start(q, tm, step, pf)

\* a single call of up to MaxLongSteps steps
LongCall(q, tm, step, pf) ==
    /\ calls = 0
    /\ TimeSteps(tm, step) <= MaxLongSteps
    /\ Start(q, tm, step, pf)

\* the body of "for t in range(time_steps)"
Step ==
    /\ pc = "loop"
    /\ ~broke
    /\ t < time_steps
    /\ u_flow' = LET dT_dx == Gradient(T_wall)
                 IN  [i \in NodeIds |-> RelaxFlow(u_flow[i], MarangoniLocal(dT_dx[i]))]
    /\ u_mean' = <<MeanFlow(u_flow')>>
    /\ h_boil' = [i \in NodeIds |-> BoilingCoeff(T_wall[i])]
    /\ h_total' = LET h_conv == ConvectiveCoeff(Nusselt(Reynolds(u_mean'[1])))
                  IN  [i \in NodeIds |-> RelaxCoeff(h_total[i], h_conv + h_boil'[i])]
    /\ T_wall' = LET d2T == Gradient(Gradient(T_wall))
                 IN  [i \in NodeIds |->
                        T_wall[i] + Advance(LimitWallRate(
                            WallRate(d2T[i], Q_FLUX_PROFILE[i], h_total'[i],
                                     T_wall[i], T_fluid[i])), dt)]
    /\ T_fluid' = LET dTf_dx == Gradient(T_fluid)
                      Tf_adv == [i \in NodeIds |->
                        T_fluid[i] + Advance(
                            FluidRate(h_total'[i], WallSeenByFluid(T_wall, T_wall')[i],
                                      T_fluid[i], u_mean'[1], dTf_dx[i]), dt)]
                  IN  PinInlet(Tf_adv)
    /\ history' = IF IsLoggingStep(t)
                  THEN Append(history, Snapshot(t, T_wall', u_mean'[1], h_total', h_boil'))
                  ELSE history
    /\ broke' = FailureCheck(t, T_wall')
    /\ t' = IF broke' THEN t ELSE t + 1
    /\ peak_T_max' = Max(peak_T_max, MaxTo(T_wall', NodeCount))
    /\ UNCHANGED <<geometry, pc, calls, q_flux_w_m2, t_max, dt, priming_flow,
                   time_steps, Q_FLUX_PROFILE, result, exception, reference, chfVars>>

\* the dictionary built by the return statement
ReturnValue ==
    [time_series |-> history,
     final_T_max |-> MaxTo(T_wall, NodeCount),
     final_flow |-> u_mean[1],
     final_h |-> Quot(SumTo(h_total, NodeCount), NodeCount),
     converged |-> Converged(T_wall)]

Arguments ==
    [q_flux_w_m2 |-> q_flux_w_m2, t_max |-> t_max, dt |-> dt,
     priming_flow |-> priming_flow]

\* the loop is over (exhausted or left by break): the return statement
Return ==
    /\ pc = "loop"
    /\ broke \/ t >= time_steps
    /\ IF u_mean = <<>>
       THEN /\ pc' = "raised"
            /\ exception' = "UnboundLocalError"
            /\ result' = <<>>
            /\ reference' = reference
       ELSE /\ pc' = "returned"
            /\ exception' = "none"
            /\ result' = <<ReturnValue>>
            /\ reference' = IF reference = <<>>
                            THEN <<[args |-> Arguments, result |-> ReturnValue]>>
                            ELSE reference
    /\ UNCHANGED <<geometry, calls, q_flux_w_m2, t_max, dt, priming_flow, time_steps,
                   t, broke, Q_FLUX_PROFILE, T_wall, T_fluid, u_flow, h_total,
                   u_mean, h_boil, history, peak_T_max, chfVars>>

----------------------------------------------------------------------------
(* physics/boiling_curves.py: calculate_zuber_chf, calculate_safety_margin *)
(* density 0.1 kg/m3, surface tension 1e-4 N/m, h_vap J/kg,                *)
(* Zuber flux W/m2, operating flux and CHF limit 0.1 W/cm2,                *)
(* safety_factor and pressure_factor in percent, percentages scaled by 100 *)

G == 981           \* 1e-2 m/s2
C_ZUBER == 131     \* 1e-3

\* FluidProperties values a caller passes; the last four break the
\* "all physical quantities > 0" rule in a density
Novec7100 ==
    [name |-> "Novec 7100", density_l |-> 15100, density_v |-> 99,
     surface_tension |-> 136, h_vap |-> 112000]
FC72 ==
    [name |-> "FC-72", density_l |-> 16800, density_v |-> 134,
     surface_tension |-> 100, h_vap |-> 88000]
ValidFluids == {Novec7100, FC72}
InvalidFluids ==
    {[Novec7100 EXCEPT !.name = "zero vapor density", !.density_v = 0],
     [Novec7100 EXCEPT !.name = "negative vapor density", !.density_v = -99],
     [Novec7100 EXCEPT !.name = "zero liquid density", !.density_l = 0],
     [Novec7100 EXCEPT !.name = "negative liquid density", !.density_l = -15100]}
Fluids == ValidFluids \cup InvalidFluids

MaxFlux == 200                  \* operating fluxes 0 .. MaxFlux, in 0.1 W/cm2
OperatingFluxes == 0..MaxFlux
SafetyFactors == {30, 70, 120}  \* percent

\* calculate_zuber_chf: what the call produces.
\*   rho_v = 0           the division by rho_v ** 2 raises ZeroDivisionError
\*   bracket_term < 0    float ** 0.25 of a negative number is a complex number
\*   otherwise           q_chf = C_ZUBER * h_fg * rho_v * velocity_scale * pressure_factor
ZuberCHF(fluid, pressure_factor) ==
    LET sigma == fluid.surface_tension
        rho_l == fluid.density_l
        rho_v == fluid.density_v
        h_fg == fluid.h_vap
        denominator == rho_v * rho_v
        diff == rho_l - rho_v
        \* bracket_term scaled by 10^6
        bracket == MulDiv(sigma * G, Abs(diff) * 10, denominator)
        \* bracket_term ** 0.25 scaled by 10^3
        velocity_scale == ISqrt(ISqrt(bracket) * 1000)
        q_chf == SMulDiv(C_ZUBER * rho_v, MulDiv(h_fg, velocity_scale, 1000), 10000)
    IN  IF denominator = 0 THEN [kind |-> "ZeroDivisionError", value |-> 0]
        ELSE IF diff < 0 THEN [kind |-> "complex", value |-> 0]
        ELSE [kind |-> "value", value |-> Quot(q_chf * pressure_factor, 100)]

\* variant: the first test is >= instead of >
SafetyStatus_inclusive(heat_flux, q_chf, safety_factor, margin_percent) ==
    IF heat_flux >= q_chf THEN "CRITICAL_FAILURE"
    ELSE IF heat_flux * 100 > q_chf * safety_factor THEN "DANGER"
    ELSE IF margin_percent < 5000 THEN "WARNING"
    ELSE "SAFE"

\* variant: the DANGER test comes before the CRITICAL_FAILURE test
SafetyStatus_danger_first(heat_flux, q_chf, safety_factor, margin_percent) ==
    IF heat_flux * 100 > q_chf * safety_factor THEN "DANGER"
    ELSE IF heat_flux > q_chf THEN "CRITICAL_FAILURE"
    ELSE IF margin_percent < 5000 THEN "WARNING"
    ELSE "SAFE"

\* variant: the WARNING test comes before the DANGER test
SafetyStatus_warning_first(heat_flux, q_chf, safety_factor, margin_percent) ==
    IF heat_flux > q_chf THEN "CRITICAL_FAILURE"
    ELSE IF margin_percent < 5000 THEN "WARNING"
    ELSE IF heat_flux * 100 > q_chf * safety_factor THEN "DANGER"
    ELSE "SAFE"

\* the if / elif / elif / else that determines status
SafetyStatus(heat_flux, q_chf, safety_factor, margin_percent) ==
    IF heat_flux > q_chf THEN "CRITICAL_FAILURE"
    ELSE IF heat_flux * 100 > q_chf * safety_factor THEN "DANGER"
    ELSE IF margin_percent < 5000 THEN "WARNING"
    ELSE "SAFE"

\* variant: utilization is taken against the allowable flux
SafetyMargin_against_allowable(heat_flux, fluid, safety_factor) ==
    LET zuber == ZuberCHF(fluid, 100)
        q_chf == Quot(zuber.value, 1000)
        q_allowable == q_chf * safety_factor
        margin == q_allowable - heat_flux * 100
        margin_percent == SMulDiv(q_chf - heat_flux, 10000, Abs(q_chf)) * Sign(q_chf)
        utilization == SMulDiv(heat_flux * 100, 10000, Abs(q_allowable)) * Sign(q_chf)
    IN  IF zuber.kind = "ZeroDivisionError" THEN [kind |-> "ZeroDivisionError", value |-> 0]
        ELSE IF zuber.kind = "value" /\ q_chf = 0
             THEN [kind |-> "ZeroDivisionError", value |-> 0]
        ELSE IF zuber.kind = "complex" THEN [kind |-> "TypeError", value |-> 0]
        ELSE [kind |-> "value",
              value |-> [fluid |-> fluid.name,
                         operating_flux_w_cm2 |-> heat_flux,
                         chf_limit_w_cm2 |-> q_chf,
                         allowable_flux_w_cm2 |-> q_allowable,
                         margin_w_cm2 |-> margin,
                         margin_percent |-> margin_percent,
                         utilization_percent |-> utilization,
                         status |-> SafetyStatus(heat_flux, q_chf, safety_factor,
                                                 margin_percent)]]

\* calculate_safety_margin(heat_flux_w_cm2, fluid, safety_factor)
SafetyMargin(heat_flux, fluid, safety_factor) ==
    LET zuber == ZuberCHF(fluid, 100)
        q_chf == Quot(zuber.value, 1000)
        q_allowable == q_chf * safety_factor
        margin == q_allowable - heat_flux * 100
        margin_percent == SMulDiv(q_chf - heat_flux, 10000, Abs(q_chf)) * Sign(q_chf)
        utilization == SMulDiv(heat_flux, 10000, Abs(q_chf)) * Sign(q_chf)
    IN  IF zuber.kind = "ZeroDivisionError" THEN [kind |-> "ZeroDivisionError", value |-> 0]
        ELSE IF zuber.kind = "value" /\ q_chf = 0
             THEN [kind |-> "ZeroDivisionError", value |-> 0]
        ELSE IF zuber.kind = "complex" THEN [kind |-> "TypeError", value |-> 0]
        ELSE [kind |-> "value",
              value |-> [fluid |-> fluid.name,
                         operating_flux_w_cm2 |-> heat_flux,
                         chf_limit_w_cm2 |-> q_chf,
                         allowable_flux_w_cm2 |-> q_allowable,
                         margin_w_cm2 |-> margin,
                         margin_percent |-> margin_percent,
                         utilization_percent |-> utilization,
                         status |-> SafetyStatus(heat_flux, q_chf, safety_factor,
                                                 margin_percent)]]

ZuberCall(fluid) ==
    /\ chf_pc = "idle"
    /\ chf_pc' = "zuber"
    /\ chf_fluid' = <<fluid>>
    /\ chf_args' = <<>>
    /\ chf_out' = ZuberCHF(fluid, 100)
    /\ UNCHANGED <<geometry, solverVars>>

SafetyMarginCall(heat_flux, fluid, safety_factor) ==
    /\ chf_pc = "idle"
    /\ chf_pc' = "margin"
    /\ chf_fluid' = <<fluid>>
    /\ chf_args' = <<[heat_flux_w_cm2 |-> heat_flux, safety_factor |-> safety_factor]>>
    /\ chf_out' = SafetyMargin(heat_flux, fluid, safety_factor)
    /\ UNCHANGED <<geometry, solverVars>>

----------------------------------------------------------------------------
(* physics/boiling_curves.py: calculate_lienhard_chf_heater_size,          *)
(* calculate_kandlikar_chf. Heater width 0.1 mm, lengths um, L' scaled by  *)
(* 10^3, size factor and enhancement scaled by 10^4, angles in degrees.    *)

MaxHeaterWidth == 30              \* heater widths 0 .. MaxHeaterWidth, in 0.1 mm
HeaterWidths == 0..MaxHeaterWidth

\* L_cap = np.sqrt(sigma / (G * (rho_l - rho_v)))   [um], rho_l > rho_v
CapillaryLength(fluid) ==
    ISqrt(MulDiv((fluid.surface_tension * 10000000) \div G, 10000,
                 fluid.density_l - fluid.density_v))

\* L_prime = heater_width_mm / L_cap_mm
DimensionlessSize(fluid, heater_width) ==
    (heater_width * 100000) \div CapillaryLength(fluid)

\* variant: the infinite-plate limit starts at L' = 3.0
LienhardSizeFactor_late_limit(L_prime) ==
    IF L_prime < 150
    THEN 11400000 \div ISqrt(ISqrt(L_prime * 1000) * 1000)
    ELSE IF L_prime < 3000
    THEN 11400 - (14 * (L_prime - 150)) \div 10
    ELSE 10000

\* the if / elif / else that determines size_factor, for L_prime > 0
LienhardSizeFactor(L_prime) ==
    IF L_prime < 150
    THEN 11400000 \div ISqrt(ISqrt(L_prime * 1000) * 1000)
    ELSE IF L_prime < 2000
    THEN 11400 - (14 * (L_prime - 150)) \div 10
    ELSE 10000

\* calculate_lienhard_chf_heater_size(fluid, heater_width_mm); a width of
\* zero divides 1.14 by the numpy float 0.0, which is inf
LienhardCHF(fluid, heater_width) ==
    LET L_prime == DimensionlessSize(fluid, heater_width)
        q_zuber == ZuberCHF(fluid, 100).value
    IN  IF heater_width = 0 THEN [kind |-> "inf", value |-> 0]
        ELSE [kind |-> "value",
              value |-> MulDiv(q_zuber, LienhardSizeFactor(L_prime), 10000)]

LienhardCall(fluid, heater_width) ==
    /\ chf_pc = "idle"
    /\ chf_pc' = "lienhard"
    /\ chf_fluid' = <<fluid>>
    /\ chf_args' = <<[heater_width_mm |-> heater_width]>>
    /\ chf_out' = LienhardCHF(fluid, heater_width)
    /\ UNCHANGED <<geometry, solverVars>>

\* contact angles a caller passes, in degrees, and np.cos(np.radians(.)) of
\* each scaled by 10^4
ContactAngles == {0, 30, 60, 90, 120, 150, 179}
Cosine(deg) ==
    CASE deg = 0 -> 10000
      [] deg = 30 -> 8660
      [] deg = 60 -> 5000
      [] deg = 90 -> 0
      [] deg = 120 -> -5000
      [] deg = 150 -> -8660
      [] deg = 179 -> -9998

\* 2/np.pi and np.pi/4 scaled by 10^4
TWO_OVER_PI == 6366
PI_OVER_4 == 7854

\* variant: the wettability factor without its division by 16
KandlikarEnhancement_undivided(deg) ==
    LET wettability == 10000 + Cosine(deg)
        geometry_term == TWO_OVER_PI + (PI_OVER_4 * (10000 + Cosine(deg))) \div 10000
    IN  ISqrt(wettability * geometry_term)

\* wettability = (1 + cos(theta)) / 16
\* geometry_term = 2/pi + pi/4 * (1 + cos(theta))
\* enhancement = (wettability * geometry_term) ** 0.5
KandlikarEnhancement(deg) ==
    LET wettability == (10000 + Cosine(deg)) \div 16
        geometry_term == TWO_OVER_PI + (PI_OVER_4 * (10000 + Cosine(deg))) \div 10000
    IN  ISqrt(wettability * geometry_term)

\* calculate_kandlikar_chf(fluid, contact_angle_deg): q_zuber * enhancement * K1
KandlikarCHF(fluid, deg) ==
    [kind |-> "value",
     value |-> MulDiv(ZuberCHF(fluid, 100).value, KandlikarEnhancement(deg), 10000)]

KandlikarCall(fluid, deg) ==
    /\ chf_pc = "idle"
    /\ chf_pc' = "kandlikar"
    /\ chf_fluid' = <<fluid>>
    /\ chf_args' = <<[contact_angle_deg |-> deg]>>
    /\ chf_out' = KandlikarCHF(fluid, deg)
    /\ UNCHANGED <<geometry, solverVars>>

----------------------------------------------------------------------------
(* physics/boiling_curves.py: calculate_boiling_curve.                     *)
(* Superheat in 0.01 C, heat flux of the curve in 0.001 W/cm2.             *)

MaxPoints == 21                   \* n_points is 1 .. MaxPoints
PointCounts == 1..MaxPoints

\* delta_t_range values a caller passes: the default (1, 100), and ranges
\* around the superheats at which the regime changes
SuperheatRanges ==
    {<<100, 10000>>, <<0, 5000>>, <<400, 600>>, <<2990, 3010>>, <<3490, 3510>>,
     <<2900, 3700>>}

\* np.linspace(lo, hi, n), entry i of 0 .. n-1
Linspace(lo, hi, n) ==
    [i \in 1..n |-> IF n = 1 THEN lo ELSE lo + MulDiv(hi - lo, i - 1, n - 1)]

DELTA_T_CHF == 3000               \* delta_t_chf = 30.0
Q_ONSET == 5                      \* q_onset = 0.5, in tenths

\* the if / elif / elif / else over one sampled superheat: which regime
BoilingRegime(superheat) ==
    IF superheat < 500 THEN "natural_convection"
    ELSE IF superheat < DELTA_T_CHF THEN "nucleate"
    ELSE IF superheat < DELTA_T_CHF + 500 THEN "transition"
    ELSE "film"

\* variant: the minimum film-boiling flux is 20% of CHF in the film branch
FilmBoilingFlux_higher_minimum(superheat, q_chf) ==
    LET q_min == q_chf \div 5
    IN  q_min + (q_min * 5 * (superheat - DELTA_T_CHF - 500)) \div 100000

\* q_min * (1 + 0.005 * (dt - delta_t_chf - 5)), q_min = q_chf * 0.1
FilmBoilingFlux(superheat, q_chf) ==
    LET q_min == q_chf \div 10
    IN  q_min + (q_min * 5 * (superheat - DELTA_T_CHF - 500)) \div 100000

\* q_flux[i] for one sampled superheat
BoilingFlux(superheat, q_chf) ==
    LET regime == BoilingRegime(superheat)
    IN  IF regime = "natural_convection"
        THEN \* h_nc * dt / 10000, h_nc = 500
             Quot(superheat, 2)
        ELSE IF regime = "nucleate"
        THEN \* q_onset * ((dt - 5) / (delta_t_chf - 5)) ** 3 * q_chf
             LET ratio == ((superheat - 500) * 10000) \div (DELTA_T_CHF - 500)
                 cube == MulDiv(MulDiv(ratio, ratio, 10000), ratio, 10000)
             IN  (Q_ONSET * cube * q_chf) \div 100000
        ELSE IF regime = "transition"
        THEN \* q_chf - (q_chf - q_min) * t_frac
             LET q_min == q_chf \div 10
             IN  q_chf - MulDiv(q_chf - q_min, superheat - DELTA_T_CHF, 500)
        ELSE FilmBoilingFlux(superheat, q_chf)

\* calculate_boiling_curve(fluid, delta_t_range, n_points)
BoilingCurve(fluid, delta_t_range, n_points) ==
    LET delta_t == Linspace(delta_t_range[1], delta_t_range[2], n_points)
        q_chf == ZuberCHF(fluid, 100).value \div 10
    IN  [delta_t |-> delta_t,
         q_flux |-> [i \in 1..n_points |-> BoilingFlux(delta_t[i], q_chf)]]

BoilingCurveCall(fluid, delta_t_range, n_points) ==
    /\ chf_pc = "idle"
    /\ chf_pc' = "curve"
    /\ chf_fluid' = <<fluid>>
    /\ chf_args' = <<[delta_t_range |-> delta_t_range, n_points |-> n_points]>>
    /\ chf_out' = [kind |-> "value", value |-> BoilingCurve(fluid, delta_t_range, n_points)]
    /\ UNCHANGED <<geometry, solverVars>>

----------------------------------------------------------------------------
(* physics/marangoni_velocity.py: calculate_marangoni_velocity             *)
(* d_sigma_dT 1e-5 N/m.K, h_film 100 um, mu 1e-5 Pa.s, dT_dx K/m.          *)
(* A velocity is the exact fraction num / den in units of 1e-4 m/s: the    *)
(* products and the quotient of the source are kept unrounded.             *)

\* variant: the solver's coefficient SIGMA_GRAD in place of the default
MarangoniDefaults_solver_coefficient ==
    [mu |-> 48, d_sigma_dT |-> 12, h_film |-> 5]

\* MarangoniFluidProperties(): the dataclass defaults
MarangoniDefaults ==
    [mu |-> 48, d_sigma_dT |-> 20, h_film |-> 5]

\* MarangoniFluidProperties values a caller passes, all with h_film > 0, mu > 0
MarangoniFluids ==
    {MarangoniDefaults,
     [MarangoniDefaults EXCEPT !.d_sigma_dT = -20],
     [MarangoniDefaults EXCEPT !.d_sigma_dT = 0],
     [MarangoniDefaults EXCEPT !.mu = 100, !.h_film = 2]}

MaxGradient == 100   \* dT_dx is -MaxGradient .. MaxGradient times 100 K/m
TemperatureGradients == {k * 100 : k \in (-MaxGradient)..MaxGradient}

\* variant: the gradient enters with its sign
MarangoniVelocity_signed(dT_dx, fluid) ==
    LET tau_ma == fluid.d_sigma_dT * dT_dx
    IN  [num |-> fluid.h_film * tau_ma, den |-> 2 * fluid.mu]

\* tau_ma = fluid.d_sigma_dT * abs(dT_dx)
\* u_marangoni = (fluid.h_film * tau_ma) / (2 * fluid.mu)
MarangoniVelocity(dT_dx, fluid) ==
    LET tau_ma == fluid.d_sigma_dT * Abs(dT_dx)
    IN  [num |-> fluid.h_film * tau_ma, den |-> 2 * fluid.mu]

\* comparison and scaling of fractions with positive denominators
FracEq(a, b) == a.num * b.den = b.num * a.den
FracScale(k, a) == [num |-> k * a.num, den |-> a.den]

MarangoniCall(dT_dx, fluid) ==
    /\ chf_pc = "idle"
    /\ chf_pc' = "marangoni"
    /\ chf_fluid' = <<fluid>>
    /\ chf_args' = <<[dT_dx |-> dT_dx]>>
    /\ chf_out' = [kind |-> "value", value |-> MarangoniVelocity(dT_dx, fluid)]
    /\ UNCHANGED <<geometry, solverVars>>

----------------------------------------------------------------------------
(* Specifications *)

SolverIdle ==
    /\ pc = "idle"
    /\ calls = 0
    /\ q_flux_w_m2 = 0
    /\ t_max = 0
    /\ dt = 0
    /\ priming_flow = 0
    /\ time_steps = 0
    /\ t = 0
    /\ broke = FALSE
    /\ Q_FLUX_PROFILE = <<>>
    /\ T_wall = <<>>
    /\ T_fluid = <<>>
    /\ u_flow = <<>>
    /\ h_total = <<>>
    /\ u_mean = <<>>
    /\ h_boil = <<>>
    /\ history = <<>>
    /\ result = <<>>
    /\ exception = "none"
    /\ peak_T_max = 0
    /\ reference = <<>>

ChfIdle ==
    /\ chf_pc = "idle"
    /\ chf_fluid = <<>>
    /\ chf_args = <<>>
    /\ chf_out = [kind |-> "none", value |-> 0]

Init ==
    /\ geometry = DefaultGeometry
    /\ SolverIdle
    /\ ChfIdle

Next ==
    \/ \E q \in HeatFluxes, tm \in TimeSpans, step \in TimeIncrements, pf \in PrimingFlows :
          Call(q, tm, step, pf)
    \/ Step
    \/ Return

Spec == Init /\ [][Next]_vars

\* one call that runs past the first logging interval
NextLong ==
    \/ \E q \in LongHeatFluxes, tm \in LongTimeSpans, step \in LongTimeIncrements :
          LongCall(q, tm, step, 20000)
    \/ Step
    \/ Return

SpecLong == Init /\ [][NextLong]_vars

\* one short call primed near the laminar limit,
\* and one primed with a negative flow
NextRegime ==
    \/ \E pf \in RegimePrimingFlows \cup ReversePrimingFlows :
          RegimeCall(1000000, 80000, 25000, pf)
    \/ Step
    \/ Return

SpecRegime == Init /\ [][NextRegime]_vars

\* the loop's control state: where the call is, the step index, the early exit
control == <<pc, t, broke>>

\* a call inside the loop moves on: the for statement takes the next index,
\* or the break is taken, or the loop is left for the return statement
Running ==
    /\ pc = "loop"
    /\ pc' \in {"loop", "returned", "raised"}
    /\ t' \in {t, t + 1}
    /\ broke' \in BOOLEAN

\* the interpreter keeps running a call that has started and is never
\* suspended inside the loop
FairSpec == Init /\ [][Next]_vars /\ WF_control(Running)

\* the correlation library, one call per behaviour
NextCHF ==
    \/ \E fluid \in Fluids : ZuberCall(fluid)
    \/ \E heat_flux \in OperatingFluxes, fluid \in Fluids, sf \in SafetyFactors :
          SafetyMarginCall(heat_flux, fluid, sf)
    \/ \E fluid \in ValidFluids, heater_width \in HeaterWidths :
          LienhardCall(fluid, heater_width)
    \/ \E fluid \in ValidFluids, deg \in ContactAngles :
          KandlikarCall(fluid, deg)
    \/ \E fluid \in ValidFluids, delta_t_range \in SuperheatRanges, n_points \in PointCounts :
          BoilingCurveCall(fluid, delta_t_range, n_points)

SpecCHF == Init /\ [][NextCHF]_vars

\* the transport model, one call per behaviour
NextMarangoni ==
    \E dT_dx \in TemperatureGradients, fluid \in MarangoniFluids :
        MarangoniCall(dT_dx, fluid)

SpecMarangoni == Init /\ [][NextMarangoni]_vars

\* the solver under a geometry other than the one in the source: lines 64-70
\* are module-level assignments, the only place a geometry can be supplied
Geometries ==
    {DefaultGeometry,
     [DefaultGeometry EXCEPT !.NODES = 3],
     [DefaultGeometry EXCEPT !.NODES = 2]}

\* node count >= 3 and positive channel dimensions
ValidGeometry(g) ==
    g.NODES >= 3 /\ g.L_CHANNEL > 0 /\ g.W_CHANNEL > 0 /\ g.H_CHANNEL > 0

InitGeom ==
    /\ geometry \in Geometries
    /\ SolverIdle
    /\ ChfIdle

SpecGeom == InitGeom /\ [][Next]_vars

----------------------------------------------------------------------------
(* Properties of solve_marangoni_physics *)

\* np.max(T_wall) of the current state
MaxWall == MaxTo(T_wall, NodeCount)

\* one pass through the loop body
StepTaken == pc = "loop" /\ pc' = "loop"

Returned == pc = "returned" /\ result # <<>>

\* C1 (as amended): no step runs after the loop was left by break, and a step
\* runs from a state whose maximum wall temperature exceeds 150 C only when
\* the step before it was not a snapshot step (t % 10000 # 0), the only steps
\* on which the failure check is made.
C1_StepAboveThresholdOnlyAfterUncheckedStep ==
    [][StepTaken =>
         /\ ~broke
         /\ (MaxWall > T_FAILURE => t >= 1 /\ ~IsLoggingStep(t - 1))]_vars

\* a step has run after the peak, and the peak was above 150 C
C1_Witness ==
    /\ pc = "loop"
    /\ ~broke
    /\ t >= 2
    /\ peak_T_max > T_FAILURE
    /\ MaxWall < peak_T_max

\* C1 (as stated): a time step is never executed from a state whose maximum
\* wall temperature already exceeds 150 C.
C1_Original == [][StepTaken => MaxWall <= T_FAILURE]_vars

\* C2 (as amended): if the call returns converged = true then the loop ran
\* to its last step, the wall is below 150 C in the final state, and every
\* snapshot of the time series has T_Max at or below 150 C; steps that are
\* not snapshot steps are not covered.
C2_ConvergedMeansFinalAndSnapshotsBelow ==
    (Returned /\ result[1].converged) =>
        /\ ~broke
        /\ t = time_steps
        /\ result[1].final_T_max < T_FAILURE
        /\ \A k \in 1..Len(result[1].time_series) :
              result[1].time_series[k].T_Max <= T_FAILURE

\* converged = true although the wall was above 150 C after some step
C2_Witness ==
    /\ Returned
    /\ result[1].converged
    /\ peak_T_max > T_FAILURE

\* C2 (as stated): converged = true implies that the maximum wall temperature
\* was below 150 C after every executed step.
C2_Original ==
    (Returned /\ result[1].converged) => peak_T_max < T_FAILURE

C4_NeverRaises ==
    (pc = "raised" \/ exception # "none") => ~(dt > 0 /\ t_max > 0)

\* C9: a call given the same heat flux, t_max, dt and priming flow as an
\* earlier call of the same process returns the same time series,
\* final_T_max, final_flow, final_h and converged.
C9_SameInputsSameResult ==
    (Returned /\ reference # <<>> /\ Arguments = reference[1].args) =>
        result[1] = reference[1].result

\* the second call of the process repeated the inputs of the first and ran steps
C9_Witness ==
    /\ Returned
    /\ calls = 2
    /\ reference # <<>>
    /\ Arguments = reference[1].args
    /\ t >= 2
    /\ Len(result[1].time_series) >= 1

\* C10: with t_max, dt and priming flow fixed, final_T_max is non-decreasing
\* in the heat flux, runs that end early on the failure check included.
C10_MonotoneInHeatFlux ==
    (/\ Returned
     /\ reference # <<>>
     /\ t_max = reference[1].args.t_max
     /\ dt = reference[1].args.dt
     /\ priming_flow = reference[1].args.priming_flow) =>
        /\ reference[1].args.q_flux_w_m2 <= q_flux_w_m2
             => reference[1].result.final_T_max <= result[1].final_T_max
        /\ q_flux_w_m2 <= reference[1].args.q_flux_w_m2
             => result[1].final_T_max <= reference[1].result.final_T_max

\* C8: an invalid geometry (a channel dimension <= 0 or fewer than 3 nodes)
\* never reaches the first time step and the call does not return a result.
C8_InvalidGeometryNeverSteps ==
    ~ValidGeometry(geometry) => (u_mean = <<>> /\ pc # "returned")

----------------------------------------------------------------------------
(* Properties of the correlation library *)

MarginReturned == chf_pc = "margin" /\ chf_out.kind = "value"

\* C5 (as amended): with safety_factor 0.70 and a positive CHF, an operating
\* flux exactly equal to the CHF is classified DANGER; CRITICAL_FAILURE needs
\* a flux strictly above the CHF.
C5_FluxEqualToChfIsDanger ==
    (/\ MarginReturned
     /\ chf_args[1].safety_factor = 70
     /\ chf_out.value.chf_limit_w_cm2 > 0) =>
        /\ chf_args[1].heat_flux_w_cm2 = chf_out.value.chf_limit_w_cm2
             => chf_out.value.status = "DANGER"
        /\ chf_out.value.status = "CRITICAL_FAILURE"
             => chf_args[1].heat_flux_w_cm2 > chf_out.value.chf_limit_w_cm2

C5_Witness ==
    /\ MarginReturned
    /\ chf_args[1].safety_factor = 70
    /\ chf_out.value.chf_limit_w_cm2 > 0
    /\ chf_args[1].heat_flux_w_cm2 = chf_out.value.chf_limit_w_cm2
    /\ chf_out.value.status = "DANGER"

\* C5 (as stated): with safety_factor 0.70 an operating flux exactly equal to
\* the CHF is classified CRITICAL_FAILURE.
C5_Original ==
    (/\ MarginReturned
     /\ chf_args[1].safety_factor = 70
     /\ chf_args[1].heat_flux_w_cm2 = chf_out.value.chf_limit_w_cm2) =>
        chf_out.value.status = "CRITICAL_FAILURE"

\* C6: the status is exactly one of four, decided in order: flux > CHF is
\* CRITICAL_FAILURE; else flux > CHF * safety_factor is DANGER; else
\* margin_percent < 50 is WARNING; else SAFE. With safety_factor 0.70 a flux
\* at or below 0.70 * CHF is WARNING or SAFE, and a flux above 0.70 * CHF
\* that is not above CHF is DANGER.
C6_StatusByOrderedThresholds ==
    MarginReturned =>
        LET flux == chf_args[1].heat_flux_w_cm2
            sf == chf_args[1].safety_factor
            chf == chf_out.value.chf_limit_w_cm2
            status == chf_out.value.status
            critical == flux > chf
            danger == ~critical /\ flux * 100 > chf * sf
            warning == ~critical /\ ~danger /\ chf_out.value.margin_percent < 5000
        IN  /\ status \in {"CRITICAL_FAILURE", "DANGER", "WARNING", "SAFE"}
            /\ (status = "CRITICAL_FAILURE") <=> critical
            /\ (status = "DANGER") <=> danger
            /\ (status = "WARNING") <=> warning
            /\ (status = "SAFE") <=> (~critical /\ ~danger /\ ~warning)
            /\ (sf = 70 /\ flux * 100 <= chf * 70 /\ flux <= chf)
                 => status \in {"WARNING", "SAFE"}
            /\ (sf = 70 /\ flux * 100 > chf * 70 /\ flux <= chf)
                 => status = "DANGER"

\* a flux exactly at 0.70 * CHF, classified WARNING
C6_Witness ==
    /\ MarginReturned
    /\ chf_args[1].safety_factor = 70
    /\ chf_out.value.chf_limit_w_cm2 > 0
    /\ chf_args[1].heat_flux_w_cm2 * 100 = chf_out.value.chf_limit_w_cm2 * 70
    /\ chf_out.value.status = "WARNING"

\* C7: calculate_zuber_chf given a liquid or vapor density that is zero or
\* negative fails with InvalidFluidProperties: no flux value and no other
\* kind of failure comes out.
C7_NonPositiveDensityRejected ==
    (/\ chf_pc = "zuber"
     /\ (chf_fluid[1].density_l <= 0 \/ chf_fluid[1].density_v <= 0)) =>
        chf_out.kind = "InvalidFluidProperties"

----------------------------------------------------------------------------
(* Properties of the transport model *)

MarangoniReturned == chf_pc = "marangoni" /\ chf_out.kind = "value"

\* C11: calculate_marangoni_velocity returns a non-negative velocity for
\* every input with h_film > 0 and mu > 0, for a gradient of either sign and
\* a coefficient d_sigma_dT of either sign.
C11_VelocityNonNegative ==
    (/\ MarangoniReturned
     /\ chf_fluid[1].h_film > 0
     /\ chf_fluid[1].mu > 0) =>
        chf_out.value.num >= 0

\* C12: for fixed fluid properties the velocity, taken as a real number, is
\* linear in the magnitude of the gradient through the origin:
\* velocity(0) = 0, velocity(-g) = velocity(g), velocity(k*g) = k*velocity(g)
\* for every k >= 0.
C12_LinearInGradientMagnitude ==
    MarangoniReturned =>
        LET g == chf_args[1].dT_dx
            fluid == chf_fluid[1]
            u == chf_out.value
        IN  /\ g = 0 => u.num = 0
            /\ FracEq(MarangoniVelocity(-g, fluid), u)
            /\ \A k \in 0..3 : FracEq(MarangoniVelocity(k * g, fluid), FracScale(k, u))

\* a negative gradient gave a velocity that is not zero
C12_Witness ==
    /\ MarangoniReturned
    /\ chf_args[1].dT_dx < 0
    /\ chf_out.value.num # 0

\* C13 (as amended): with the default properties and dT/dx = 1000 K/m the
\* velocity is within 1e-6 of 0.104167 m/s (5/48 m/s).
C13_DefaultVelocityValue ==
    (/\ MarangoniReturned
     /\ chf_fluid[1] = MarangoniDefaults
     /\ chf_args[1].dT_dx = 1000) =>
        Abs(100 * chf_out.value.num - 104167 * chf_out.value.den) <= chf_out.value.den

C13_Witness ==
    /\ MarangoniReturned
    /\ chf_fluid[1] = MarangoniDefaults
    /\ chf_args[1].dT_dx = 1000
    /\ chf_out.value.num > 0

\* C13 (as stated): with the default properties and dT/dx = 1000 K/m the
\* velocity is within 1e-6 of 0.1042 m/s.
C13_Original ==
    (/\ MarangoniReturned
     /\ chf_fluid[1] = MarangoniDefaults
     /\ chf_args[1].dT_dx = 1000) =>
        Abs(100 * chf_out.value.num - 104200 * chf_out.value.den) <= chf_out.value.den

\* C27: as the docstring example states, with the default properties and a
\* 10 C difference over 1 mm (dT/dx = 10000 K/m) the function returns
\* 0.104 m/s to three decimals.
C27_DocstringExample ==
    (/\ MarangoniReturned
     /\ chf_fluid[1] = MarangoniDefaults
     /\ chf_args[1].dT_dx = 10000) =>
        Abs(chf_out.value.num - 1040 * chf_out.value.den) <= 5 * chf_out.value.den

----------------------------------------------------------------------------
(* Properties of the heater-size and wettability corrections *)

LienhardReturned == chf_pc = "lienhard" /\ chf_out.kind = "value"

\* C14: for every heater width whose dimensionless size L' is at least 2.0,
\* calculate_lienhard_chf_heater_size returns exactly calculate_zuber_chf(fluid).
C14_LargeHeaterIsZuber ==
    (/\ LienhardReturned
     /\ DimensionlessSize(chf_fluid[1], chf_args[1].heater_width_mm) >= 2000) =>
        chf_out.value = ZuberCHF(chf_fluid[1], 100).value

\* a heater less than 1.5 times the width at which L' reaches 2.0
C14_Witness ==
    /\ LienhardReturned
    /\ DimensionlessSize(chf_fluid[1], chf_args[1].heater_width_mm) >= 2000
    /\ DimensionlessSize(chf_fluid[1], chf_args[1].heater_width_mm) < 3000
    /\ chf_out.value = ZuberCHF(chf_fluid[1], 100).value

\* C28: for every heater width > 0 and every fluid with density_l >
\* density_v > 0 the result is at or above the Zuber value: the size factor
\* never drops below 1.0 and does not increase as the heater grows.
C28_LienhardAtOrAboveZuber ==
    (/\ LienhardReturned
     /\ chf_args[1].heater_width_mm > 0
     /\ chf_fluid[1].density_l > chf_fluid[1].density_v
     /\ chf_fluid[1].density_v > 0) =>
        LET fluid == chf_fluid[1]
            width == chf_args[1].heater_width_mm
            factor(w) == LienhardSizeFactor(DimensionlessSize(fluid, w))
        IN  /\ chf_out.value >= ZuberCHF(fluid, 100).value
            /\ factor(width) >= 10000
            /\ \A wider \in HeaterWidths : wider >= width => factor(wider) <= factor(width)

KandlikarReturned == chf_pc = "kandlikar" /\ chf_out.kind = "value"

C18_MarginRecord ==
    (MarginReturned /\ chf_out.value.chf_limit_w_cm2 > 0) =>
        LET flux == chf_args[1].heat_flux_w_cm2
            sf == chf_args[1].safety_factor
            rec == chf_out.value
            chf == rec.chf_limit_w_cm2
        IN  /\ chf = Quot(ZuberCHF(chf_fluid[1], 100).value, 1000)
            /\ rec.allowable_flux_w_cm2 = chf * sf
            /\ Abs(rec.margin_percent * chf - (chf - flux) * 10000) < chf
            /\ Abs(rec.utilization_percent * chf - flux * 10000) < chf
            /\ Abs(rec.margin_percent + rec.utilization_percent - 10000) <= 1
            /\ rec.operating_flux_w_cm2 = flux
            /\ rec.fluid = chf_fluid[1].name

\* a flux strictly between zero and the CHF, with safety factor 0.70
C18_Witness ==
    /\ MarginReturned
    /\ chf_args[1].safety_factor = 70
    /\ chf_args[1].heat_flux_w_cm2 = 50
    /\ chf_out.value.chf_limit_w_cm2 > 50
    /\ chf_out.value.utilization_percent > 0
    /\ chf_out.value.margin_percent > 0

\* C30: for a fixed fluid with CHF > 0 and a fixed safety_factor > 0 the
\* status never becomes less severe when the operating flux increases, under
\* the order SAFE < WARNING < DANGER < CRITICAL_FAILURE.
C30_SeverityMonotoneInFlux ==
    (/\ MarginReturned
     /\ chf_out.value.chf_limit_w_cm2 > 0
     /\ chf_args[1].safety_factor > 0) =>
        LET severity == [status \in {"SAFE", "WARNING", "DANGER", "CRITICAL_FAILURE"} |->
                            CASE status = "SAFE" -> 0
                              [] status = "WARNING" -> 1
                              [] status = "DANGER" -> 2
                              [] status = "CRITICAL_FAILURE" -> 3]
            flux1 == chf_args[1].heat_flux_w_cm2
            other(flux2) == SafetyMargin(flux2, chf_fluid[1], chf_args[1].safety_factor)
        IN  \A flux2 \in OperatingFluxes :
                flux1 <= flux2 =>
                    severity[chf_out.value.status] <= severity[other(flux2).value.status]

\* the lowest flux classified DANGER: one step below it the status is WARNING
C30_Witness ==
    /\ MarginReturned
    /\ chf_out.value.chf_limit_w_cm2 > 0
    /\ chf_args[1].safety_factor = 70
    /\ chf_args[1].heat_flux_w_cm2 >= 1
    /\ chf_out.value.status = "DANGER"
    /\ SafetyMargin(chf_args[1].heat_flux_w_cm2 - 1, chf_fluid[1], 70).value.status
           = "WARNING"

----------------------------------------------------------------------------
(* Properties of the boiling curve *)

CurveReturned == chf_pc = "curve" /\ chf_out.kind = "value"

\* q_chf of the call that returned, in 0.001 W/cm2
CurveCHF == ZuberCHF(chf_fluid[1], 100).value \div 10

\* C22: the nucleate branch rises to the CHF value as dT approaches 30 C, so
\* the curve is continuous where it meets the transition branch at dT = 30:
\* a sample within 0.01 C below 30 C is within 1% of CHF and a sample at
\* 30 C is CHF.
C22_NucleateMeetsChf ==
    CurveReturned =>
        \A i \in 1..chf_args[1].n_points :
            LET superheat == chf_out.value.delta_t[i]
                q == chf_out.value.q_flux[i]
            IN  /\ superheat = DELTA_T_CHF => q = CurveCHF
                /\ (superheat >= DELTA_T_CHF - 1 /\ superheat < DELTA_T_CHF)
                      => q * 100 >= CurveCHF * 99

\* C23: every sampled superheat falls in exactly one of four branches chosen
\* by dT alone (dT < 5, 5 <= dT < 30, 30 <= dT < 35, dT >= 35); the transition
\* branch falls linearly from CHF at dT = 30 towards 10% of CHF at dT = 35,
\* and the film branch starts at 10% of CHF at dT = 35 and never decreases
\* as dT grows.
C23_BranchesOfTheCurve ==
    CurveReturned =>
        LET n == chf_args[1].n_points
            dT == chf_out.value.delta_t
            q == chf_out.value.q_flux
            chf == CurveCHF
            q_min == chf \div 10
        IN  /\ DOMAIN dT = 1..n /\ DOMAIN q = 1..n
            /\ \A i \in 1..n :
                  /\ dT[i] < 500 => q[i] = Quot(dT[i], 2)
                  /\ (dT[i] >= 500 /\ dT[i] < 3000) => (q[i] >= 0 /\ q[i] < chf)
                  /\ (dT[i] >= 3000 /\ dT[i] < 3500) =>
                        /\ Abs((chf - q[i]) * 500 - (chf - q_min) * (dT[i] - 3000)) < 500
                        /\ q[i] > q_min /\ q[i] <= chf
                        /\ dT[i] = 3000 => q[i] = chf
                  /\ dT[i] >= 3500 =>
                        /\ q[i] >= q_min
                        /\ dT[i] = 3500 => q[i] = q_min
                        /\ Abs((q[i] - q_min) * 100000 - q_min * 5 * (dT[i] - 3500)) < 100000
                  /\ \A j \in 1..n :
                        /\ (dT[i] = dT[j]) => q[i] = q[j]
                        /\ (dT[i] >= 3500 /\ dT[j] >= dT[i]) => q[j] >= q[i]
                        /\ (dT[i] >= 3000 /\ dT[j] >= dT[i] /\ dT[j] < 3500) => q[j] <= q[i]

\* a curve sampled at 30 C, inside the transition, at 35 C and beyond
C23_Witness ==
    /\ CurveReturned
    /\ CurveCHF > 0
    /\ \E i, j, k, l \in 1..chf_args[1].n_points :
          /\ chf_out.value.delta_t[i] = 3000
          /\ chf_out.value.delta_t[j] > 3000 /\ chf_out.value.delta_t[j] < 3500
          /\ chf_out.value.delta_t[k] = 3500
          /\ chf_out.value.delta_t[l] > 3500
          /\ chf_out.value.q_flux[l] > chf_out.value.q_flux[k]
          /\ chf_out.value.q_flux[j] < chf_out.value.q_flux[i]

----------------------------------------------------------------------------
(* Properties of the solver's heat load, wall update and inlet *)

InCall == pc \in {"loop", "returned", "raised"}

\* C15: the heat-load profile has exactly one entry per node and the mean of
\* the per-node heat flux equals the scalar heat flux passed in (to one part
\* in a thousand, the resolution of the shape factor), for every heat flux.
C15_ProfileMeanIsHeatFlux ==
    InCall =>
        /\ DOMAIN Q_FLUX_PROFILE = NodeIds
        /\ Cardinality(DOMAIN Q_FLUX_PROFILE) = NodeCount
        /\ Abs(SumTo(Q_FLUX_PROFILE, NodeCount) - NodeCount * q_flux_w_m2)
              <= (NodeCount * q_flux_w_m2) \div 1000

\* a call with the largest heat flux: the profile peaks above it at the centre
\* and falls below it at the ends
C15_Witness ==
    /\ pc = "loop"
    /\ q_flux_w_m2 = 5000000
    /\ Q_FLUX_PROFILE[CENTER_NODE] > 3 * q_flux_w_m2
    /\ Q_FLUX_PROFILE[0] < q_flux_w_m2

\* C17: in the initial state and after every time step the fluid temperature
\* at node 0 equals the ambient inlet temperature, 25 C.
C17_InletPinned ==
    InCall => T_fluid[0] = T_AMBIENT

\* steps have run, the wall at node 0 is warmer than the inlet and exchanges
\* heat with it, and the fluid downstream has warmed
C17_Witness ==
    /\ pc = "loop"
    /\ t >= 2
    /\ T_wall[0] > T_AMBIENT
    /\ h_total[0] > 0
    /\ T_fluid[1] > T_AMBIENT
    /\ T_fluid[0] = T_AMBIENT

\* what the step about to run computes from the current state, up to the
\* wall rate before the limiter
UpcomingFlow ==
    LET dT_dx == Gradient(T_wall)
    IN  [i \in NodeIds |-> RelaxFlow(u_flow[i], MarangoniLocal(dT_dx[i]))]
UpcomingCoeff(i) ==
    RelaxCoeff(h_total[i],
               ConvectiveCoeff(Nusselt(Reynolds(MeanFlow(UpcomingFlow))))
                   + BoilingCoeff(T_wall[i]))
UpcomingWallRate(i) ==
    WallRate(Gradient(Gradient(T_wall))[i], Q_FLUX_PROFILE[i], UpcomingCoeff(i),
             T_wall[i], T_fluid[i])

\* C16: in every time step the wall temperature of each node changes by at
\* most (alpha_Cu / DX^2) * dt in absolute value, whatever the conduction,
\* source and extraction terms are.
C16_WallChangeBounded ==
    [][StepTaken =>
         \A i \in NodeIds : Abs(T_wall'[i] - T_wall[i]) <= Advance(MaxRate, dt)]_vars

\* a step has run and the step about to run computes, for some node, a rate
\* beyond the limit
C16_Witness ==
    /\ pc = "loop"
    /\ ~broke
    /\ t >= 1
    /\ t < time_steps
    /\ \E i \in NodeIds : Abs(UpcomingWallRate(i)) > MaxRate

----------------------------------------------------------------------------
(* Snapshots of the solver *)

\* loop bodies executed so far in the current call
StepsExecuted == IF broke THEN t + 1 ELSE t

C24_BoilingCoefficient ==
    [][StepTaken =>
         /\ \A i \in NodeIds :
               LET superheat == T_wall[i] - 33000
                   h == h_boil'[i]
               IN  /\ h >= 0 /\ h <= 2000000
                   /\ superheat <= 0 => h = 0
                   /\ superheat >= 10000 => h = 2000000
                   /\ (superheat > 0 /\ superheat < 10000) =>
                         (h > 0 /\ Abs(h * 50 - superheat * superheat) <= 50)
         /\ t % 10000 = 0 =>
               LET boiling == Cardinality({i \in NodeIds : T_wall[i] > 33000})
                   ratio == history'[Len(history')].Boiling_Ratio
               IN  /\ ratio >= 0 /\ ratio <= 10000
                   /\ Abs(ratio * NodeCount - boiling * 10000) <= NodeCount]_vars

\* the second snapshot of a run records that some nodes boil and some do not
C24_Witness ==
    /\ pc = "loop"
    /\ Len(history) = 2
    /\ history[2].Boiling_Ratio > 0
    /\ history[2].Boiling_Ratio < 10000
    /\ \E i \in NodeIds : h_boil[i] > 0 /\ h_boil[i] < H_BOIL_MAX

\* C25: in every time step the Nusselt number is chosen by the Reynolds
\* number alone: 4.36 when Re < 2300, the Gnielinski form with
\* f = (0.79 ln Re - 1.64)^-2 when Re >= 2300, Re = 2300 included; the
\* convective coefficient Nu * k / D_h is strictly positive in both regimes.
C25_NusseltByReynolds ==
    [][StepTaken =>
         LET Re == Reynolds(u_mean'[1])
             Nu == IF Re < 2300 THEN 436 ELSE Gnielinski(Re)
             h_conv == MulDiv(Nu * K_FLUID, 100, D_H)
         IN  /\ Nu > 0
             /\ h_conv > 0
             /\ Re >= 2300 => FrictionFactor(Re) > 0
             /\ \A i \in NodeIds :
                   h_total'[i] = Quot(99 * h_total[i] + h_conv + h_boil'[i], 100)]_vars

\* the first step ran at Re = 2300 exactly and took the turbulent coefficient
C25_Witness ==
    /\ pc = "loop"
    /\ t = 1
    /\ Reynolds(u_mean[1]) = 2300
    /\ h_total[0] = ConvectiveCoeff(Gnielinski(2300)) \div 100
    /\ h_total[0] > ConvectiveCoeff(NU_LAMINAR) \div 100

\* C26: at every time step, for any priming_flow passed in, the mean flow
\* velocity used for the Reynolds number and for advection and reported as
\* Flow_Mean / final_flow is strictly positive, at least the 0.01 m/s floor.
C26_MeanFlowAtLeastFloor ==
    /\ (InCall /\ u_mean # <<>>) => u_mean[1] >= 100
    /\ InCall => \A k \in 1..Len(history) : history[k].Flow_Mean >= 100
    /\ Returned => result[1].final_flow >= 100

\* C29: within one time step the updates run in a fixed order: velocity
\* relaxation, heat-transfer coefficient relaxation, wall update, fluid
\* update, inlet pin, then on snapshot steps the snapshot and the failure
\* check. The fluid update takes its gain h_total * (T_wall - T_fluid) from
\* the wall temperature already advanced in the step, the wall update took
\* its extraction from the wall temperature before the advance; both use the
\* same h_total and the same fluid temperature of before the step.
C29_OrderOfUpdates ==
    [][StepTaken =>
         LET flow == MeanFlow(u_flow')
             h_conv == ConvectiveCoeff(Nusselt(Reynolds(flow)))
             d2T == Gradient(Gradient(T_wall))
             dTf_dx == Gradient(T_fluid)
         IN  /\ u_mean' = <<flow>>
             /\ \A i \in NodeIds :
                   /\ h_total'[i] = RelaxCoeff(h_total[i], h_conv + BoilingCoeff(T_wall[i]))
                   /\ T_wall'[i] = T_wall[i] + Advance(LimitWallRate(
                          WallRate(d2T[i], Q_FLUX_PROFILE[i], h_total'[i],
                                   T_wall[i], T_fluid[i])), dt)
                   /\ i # 0 => T_fluid'[i] = T_fluid[i] + Advance(
                          FluidRate(h_total'[i], T_wall'[i], T_fluid[i], flow, dTf_dx[i]), dt)
             /\ T_fluid'[0] = T_AMBIENT
             /\ t % 10000 = 0 =>
                   /\ history'[Len(history')].T_Max
                          = RoundHalfEven(MaxTo(T_wall', NodeCount), 10)
                   /\ history'[Len(history')].Flow_Mean = flow
                   /\ broke' = (MaxTo(T_wall', NodeCount) > T_FAILURE)]_vars

\* after the first step the fluid away from the seeded node has warmed: wall
\* and fluid were both at 25 C before the step, so the gain came from the
\* wall temperature advanced in that step
C29_Witness ==
    /\ pc = "loop"
    /\ t = 1
    /\ \E i \in NodeIds :
          /\ i # 0
          /\ i # CENTER_NODE
          /\ T_fluid[i] > T_AMBIENT
          /\ T_wall[i] > T_AMBIENT
          /\ h_total[i] > 0

----------------------------------------------------------------------------
(* Termination of the solver *)

\* C20: every call with dt > 0 terminates: it executes at most int(t_max/dt)
\* steps, each step index at most once and in increasing order, and the loop
\* is left only by reaching that step count or by the runaway early exit.
C20_Terminates ==
    /\ [](InCall => (t >= 0 /\ t <= t_max \div dt))
    /\ [][StepTaken => \/ t' = t + 1 /\ ~broke'
                       \/ t' = t /\ broke' /\ MaxTo(T_wall', NodeCount) > T_FAILURE]_vars
    /\ [][(pc = "loop" /\ pc' # "loop") => (broke \/ t = t_max \div dt)]_vars
    /\ (pc = "loop") ~> (pc \in {"returned", "raised"})

\* a call that ran all of its steps, three or more, and returned
C20_Witness ==
    /\ Returned
    /\ ~broke
    /\ time_steps >= 3
    /\ t = time_steps

====
